---- MODULE Spec2Model ----
(***************************************************************************)
(* Model of graphrag's S3 pipeline storage                                 *)
(* (src/graphrag/index/storage/s3_pipeline_storage.py).                    *)
(*                                                                         *)
(* A Python str is a sequence of one-character strings, a bytes object a   *)
(* sequence of integers 0..255, a text value a sequence of code points.    *)
(* The S3 bucket is a function from full object keys to object bodies.     *)
(* An S3PipelineStorage instance has only immutable fields (bucket_name,   *)
(* base_prefix, s3), so an instance is identified by its base_prefix.      *)
(***************************************************************************)
EXTENDS Integers, Sequences, FiniteSets, TLC

VARIABLES bucket, instances, lastOp, gen, gen2, storage, loader

vars == <<bucket, instances, lastOp, gen, gen2, storage, loader>>

\* the state outside S3PipelineStorage's key-value and find operations: a
\* second find generator, load_storage's call, s3_text's load
aux == <<gen2, storage, loader>>

(***************************************************************************)
(* Bounds and input sets                                                   *)
(***************************************************************************)
\* largest number of S3PipelineStorage instances alive in the model
MaxInst == 2

\* number of keys list_objects_v2 returns per page (1000 on S3, scaled down)
PageSize == 2

\* Python's None where a str is expected (child's name, find's base_dir)
NoneStr == <<"<None>">>

Slash == <<"/">>

\* base_prefix values the first instance is constructed with
InitPrefixes == { <<>>, <<"a">> }

\* keys handed to get / set / has / delete
Keys == { <<"b">>, <<"b", "/", "b">> }

\* names handed to child
ChildNames == { NoneStr, <<>>, <<"b">> }


Str(cps) == [kind |-> "str", data |-> cps]

Bytes(bs) == [kind |-> "bytes", data |-> bs]

\* a result that carries no data: None, True, False, or a raised exception
Plain(k) == [kind |-> k, data |-> <<>>]

\* <<value, encoding>> handed to set: the text "é" with the default encoding
\* (Python's None) and with latin-1, and the bytes b"\xe9"
SetArgs == { <<Str(<<233>>), "None">>, <<Str(<<233>>), "latin-1">>,
             <<Bytes(<<233>>), "None">> }

\* <<as_bytes, encoding>> handed to get
GetArgs == { <<TRUE, "None">>, <<FALSE, "None">>, <<FALSE, "latin-1">> }

(***************************************************************************)
(* Python str operations                                                   *)
(***************************************************************************)
\* s[i:i+len(sub)] == sub (i is 1-based)
OccursAt(s, sub, i) ==
    /\ i >= 1
    /\ i + Len(sub) - 1 <= Len(s)
    /\ \A j \in 1..Len(sub) : s[i + j - 1] = sub[j]

\* s.startswith(sub)
StartsWith(s, sub) == OccursAt(s, sub, 1)

\* s.find(sub, i): the first position >= i where sub occurs, 0 when none
RECURSIVE FindFrom(_, _, _)
FindFrom(s, sub, i) ==
    IF i + Len(sub) - 1 > Len(s) THEN 0
    ELSE IF OccursAt(s, sub, i) THEN i
    ELSE FindFrom(s, sub, i + 1)

\* s.count(sub) from position i on: non-overlapping occurrences
RECURSIVE CountFrom(_, _, _)
CountFrom(s, sub, i) ==
    LET p == FindFrom(s, sub, i) IN
    IF p = 0 THEN 0 ELSE 1 + CountFrom(s, sub, p + Len(sub))

\* s.count(sub); Python counts len(s) + 1 occurrences of the empty string
StrCount(s, sub) ==
    IF sub = <<>> THEN Len(s) + 1 ELSE CountFrom(s, sub, 1)

\* s.replace(old, "", 1) for a non-empty old
RemoveFirst(s, old) ==
    LET p == FindFrom(s, old, 1) IN
    IF p = 0 THEN s
    ELSE SubSeq(s, 1, p - 1) \o SubSeq(s, p + Len(old), Len(s))

\* code point order of the characters used in keys
Ord(c) ==
    CASE c = "." -> 46 [] c = "/" -> 47 [] c = "a" -> 97 [] c = "b" -> 98
      [] c = "t" -> 116 [] c = "x" -> 120 [] OTHER -> 0

\* s < t in the byte order S3 lists keys in
RECURSIVE LexLess(_, _)
LexLess(s, t) ==
    IF t = <<>> THEN FALSE
    ELSE IF s = <<>> THEN TRUE
    ELSE IF Ord(Head(s)) # Ord(Head(t)) THEN Ord(Head(s)) < Ord(Head(t))
    ELSE LexLess(Tail(s), Tail(t))

(***************************************************************************)
(* str.encode / bytes.decode                                               *)
(***************************************************************************)
\* encoding or 'utf-8'
Codec(encoding) == IF encoding = "None" THEN "utf-8" ELSE encoding

\* one code point as UTF-8 (code points below 0x800)
Utf8Of(cp) ==
    IF cp < 128 THEN <<cp>> ELSE <<192 + (cp \div 64), 128 + (cp % 64)>>

RECURSIVE Utf8Encode(_)
Utf8Encode(cps) ==
    IF cps = <<>> THEN <<>> ELSE Utf8Of(Head(cps)) \o Utf8Encode(Tail(cps))

\* value.encode(codec); "error" stands for UnicodeEncodeError
Encode(cps, codec) ==
    IF codec = "utf-8" THEN Bytes(Utf8Encode(cps))
    ELSE IF \A i \in 1..Len(cps) : cps[i] < 256 THEN Bytes(cps)
    ELSE Plain("UnicodeEncodeError")

\* UTF-8 decoding of code points below 0x800; <<-1>> marks invalid input
RECURSIVE Utf8Decode(_)
Utf8Decode(bs) ==
    IF bs = <<>> THEN <<>>
    ELSE IF bs[1] < 128 THEN
        LET rest == Utf8Decode(Tail(bs)) IN
        IF rest = <<-1>> THEN rest ELSE <<bs[1]>> \o rest
    ELSE IF bs[1] >= 194 /\ bs[1] < 224 /\ Len(bs) >= 2
            /\ bs[2] >= 128 /\ bs[2] < 192 THEN
        LET rest == Utf8Decode(SubSeq(bs, 3, Len(bs))) IN
        IF rest = <<-1>> THEN rest
        ELSE <<(bs[1] - 192) * 64 + (bs[2] - 128)>> \o rest
    ELSE <<-1>>

\* data.decode(codec)
Decode(bs, codec) ==
    IF codec = "utf-8" THEN
        LET cps == Utf8Decode(bs) IN
        IF cps = <<-1>> THEN Plain("UnicodeDecodeError") ELSE Str(cps)
    ELSE Str(bs)

(***************************************************************************)
(* The S3 client                                                           *)
(***************************************************************************)
\* the keys of the bucket that start with prefix and sort after token
KeysAfter(b, prefix, token) ==
    { k \in DOMAIN b : StartsWith(k, prefix) /\ (token = NoneStr \/ LexLess(token, k)) }

\* the least key of a non-empty set of keys
MinKey(S) == CHOOSE k \in S : \A o \in S : o = k \/ LexLess(k, o)

\* the first n keys of S in listing order
RECURSIVE FirstKeys(_, _)
FirstKeys(S, n) ==
    IF n = 0 \/ S = {} THEN <<>>
    ELSE LET m == MinKey(S) IN <<m>> \o FirstKeys(S \ {m}, n - 1)

\* one list_objects_v2 response of the paginator
ListPage(b, prefix, token) ==
    LET S == KeysAfter(b, prefix, token) IN
    [Contents |-> FirstKeys(S, PageSize), IsTruncated |-> Cardinality(S) > PageSize]

\* put_object
PutObject(b, k, body) == [x \in DOMAIN b \cup {k} |-> IF x = k THEN body ELSE b[x]]

\* delete_object / delete_objects: absent keys are ignored
DeleteObjects(b, ks) == [x \in DOMAIN b \ ks |-> b[x]]

(***************************************************************************)
(* Key resolution                                                          *)
(***************************************************************************)
\* f"{self.base_prefix}/{key}" if self.base_prefix else key
FullKey(bp, key) == IF bp # <<>> THEN bp \o Slash \o key ELSE key

\* the key get fetches: the full key with a duplicated prefix stripped
GetKey(bp, key) ==
    LET full_key == FullKey(bp, key) IN
    IF StrCount(full_key, bp) > 1 THEN RemoveFirst(full_key, bp \o Slash)
    ELSE full_key

(***************************************************************************)
(* get / set / has / delete / clear / child                                *)
(***************************************************************************)
\* what get returns: the object's content, None for an absent key
\* (ClientError 'NoSuchKey'), or the exception it raises
GetResult(b, bp, key, as_bytes, encoding) ==
    LET full_key == GetKey(bp, key) IN
    IF full_key = <<>> THEN Plain("ParamValidationError")
    ELSE IF full_key \notin DOMAIN b THEN Plain("None")
    ELSE IF as_bytes THEN Bytes(b[full_key])
    ELSE Decode(b[full_key], Codec(encoding))

\* the Body set hands to put_object: bytes as they are, text encoded
SetBody(value, encoding) ==
    IF value.kind = "bytes" THEN value ELSE Encode(value.data, Codec(encoding))

\* the bucket after set
SetResult(b, bp, key, value, encoding) ==
    LET body == SetBody(value, encoding) IN
    IF body.kind = "bytes" THEN PutObject(b, FullKey(bp, key), body.data) ELSE b

\* has probing the key get fetches, not the key set writes
HasResult_GetKey(b, bp, key) == GetKey(bp, key) \in DOMAIN b

\* what has returns: head_object succeeds, or raises ClientError (404)
HasResult(b, bp, key) == FullKey(bp, key) \in DOMAIN b

\* delete removing the key get fetches, not the key set writes
DeleteResult_GetKey(b, bp, key) == DeleteObjects(b, {GetKey(bp, key)})

\* the bucket after delete
DeleteResult(b, bp, key) == DeleteObjects(b, {FullKey(bp, key)})

\* clear without pagination: only the first page is deleted
ClearPages_FirstPage(b, prefix, token, calls) ==
    LET objects == ListPage(b, prefix, token).Contents IN
    IF objects # <<>>
    THEN [bucket |-> DeleteObjects(b, {objects[i] : i \in 1..Len(objects)}),
          calls |-> calls + 1]
    ELSE [bucket |-> b, calls |-> calls]

\* the pages of clear: every page's keys go into one delete_objects call;
\* the next page is listed after the last key of the page before
RECURSIVE ClearPages(_, _, _, _)
ClearPages(b, prefix, token, calls) ==
    LET page == ListPage(b, prefix, token)
        objects == page.Contents
        after == IF objects # <<>>
                 THEN DeleteObjects(b, {objects[i] : i \in 1..Len(objects)})
                 ELSE b
        n == IF objects # <<>> THEN calls + 1 ELSE calls
    IN IF page.IsTruncated
       THEN ClearPages(after, prefix, objects[Len(objects)], n)
       ELSE [bucket |-> after, calls |-> n]

\* the bucket after clear, and the number of delete_objects calls made
ClearResult(b, bp) == ClearPages(b, bp, NoneStr, 0)

\* the prefix of the instance child returns
ChildPrefix(bp, name) == IF name = NoneStr THEN bp ELSE FullKey(bp, name)

\* TRUE when child returns self, FALSE when it constructs an instance
ChildIsSelf(bp, name) == name = NoneStr

(***************************************************************************)
(* Python re: a backtracking matcher over a small regular expression       *)
(* syntax.  M returns the ways the expression matches s from position i,   *)
(* in the order Python tries them; re.match takes the first.               *)
(***************************************************************************)
Node(t, c, n, r) == [t |-> t, c |-> c, n |-> n, r |-> r]

\* the character c
Lit(c) == Node("lit", c, "", <<>>)

\* .
Dot == Node("any", "", "", <<>>)

\* r1 r2 ...
Cat(rs) == Node("cat", "", "", rs)

\* r?
Opt(x) == Node("opt", "", "", <<x>>)

\* r*
Star(x) == Node("star", "", "", <<x>>)

\* (?P<n>r)
Grp(n, x) == Node("grp", "", n, <<x>>)

RECURSIVE GroupNames(_)
GroupNames(re) ==
    (IF re.t = "grp" THEN {re.n} ELSE {})
        \cup UNION { GroupNames(re.r[j]) : j \in 1..Len(re.r) }

RECURSIVE M(_, _, _, _)
RECURSIVE MCat(_, _, _, _)
RECURSIVE MEach(_, _, _, _)
RECURSIVE MStarEach(_, _, _, _)

\* the matches of the sequence rs from position i
MCat(rs, s, i, g) ==
    IF rs = <<>> THEN << [pos |-> i, g |-> g] >>
    ELSE MEach(M(Head(rs), s, i, g), Tail(rs), s, i)

\* the matches of rs continued from every match in found
MEach(found, rs, s, i) ==
    IF found = <<>> THEN <<>>
    ELSE MCat(rs, s, Head(found).pos, Head(found).g) \o MEach(Tail(found), rs, s, i)

\* x* continued from every match of x in found that consumed a character
MStarEach(found, x, s, i) ==
    IF found = <<>> THEN <<>>
    ELSE (IF Head(found).pos > i
          THEN M(Star(x), s, Head(found).pos, Head(found).g) ELSE <<>>)
         \o MStarEach(Tail(found), x, s, i)

M(re, s, i, g) ==
    CASE re.t = "lit" ->
            IF i <= Len(s) /\ s[i] = re.c THEN << [pos |-> i + 1, g |-> g] >> ELSE <<>>
      [] re.t = "any" ->
            IF i <= Len(s) THEN << [pos |-> i + 1, g |-> g] >> ELSE <<>>
      [] re.t = "cat" -> MCat(re.r, s, i, g)
      [] re.t = "opt" -> M(re.r[1], s, i, g) \o << [pos |-> i, g |-> g] >>
      [] re.t = "star" ->
            MStarEach(M(re.r[1], s, i, g), re.r[1], s, i) \o << [pos |-> i, g |-> g] >>
      [] re.t = "grp" ->
            LET found == M(re.r[1], s, i, g) IN
            [j \in 1..Len(found) |->
                [pos |-> found[j].pos,
                 g |-> [found[j].g EXCEPT ![re.n] = SubSeq(s, i, found[j].pos - 1)]]]

\* re.match(re, s): matched, and match.groupdict() (None for a group that
\* did not take part)
ReMatch(re, s) ==
    LET found == M(re, s, 1, [n \in GroupNames(re) |-> NoneStr]) IN
    IF found = <<>> THEN [matched |-> FALSE, group |-> << >>]
    ELSE [matched |-> TRUE, group |-> found[1].g]

\* file_pattern arguments of find, by name
Pattern(id) ==
    CASE id = ".*" -> Star(Dot)
      [] id = "a/b" -> Cat(<< Lit("a"), Lit("/"), Lit("b") >>)
      [] id = "b" -> Lit("b")
      [] id = "(?P<y>.)/(?P<x>b/)?b" ->
            Cat(<< Grp("y", Dot), Lit("/"),
                   Opt(Grp("x", Cat(<<Lit("b"), Lit("/")>>))), Lit("b") >>)

Patterns == { ".*", "b", "(?P<y>.)/(?P<x>b/)?b" }

\* file_filter arguments of find, by name: the items of the dict in order,
\* each a group name and a pattern
Filter(id) ==
    CASE id = "None" -> <<>>
      [] id = "{y: a}" -> << <<"y", Lit("a")>> >>
      [] id = "{x: b}" -> << <<"x", Lit("b")>> >>
      [] id = "{z: a}" -> << <<"z", Lit("a")>> >>

Filters == { "None", "{y: a}", "{x: b}", "{z: a}" }

\* base_dir arguments of find
BaseDirs == { NoneStr, <<"b">> }

\* max_count arguments of find
MaxCounts == { -1, 0, 1, 2 }

(***************************************************************************)
(* find                                                                    *)
(***************************************************************************)
\* all(re.match(value, group[key]) for key, value in file_filter.items()):
\* "pass", "fail", or the exception the lookup or the match raises
RECURSIVE FilterAll(_, _)
FilterAll(items, group) ==
    IF items = <<>> THEN "pass"
    ELSE LET name == Head(items)[1]
             value == Head(items)[2]
         IN IF name \notin DOMAIN group THEN "KeyError"
            ELSE IF group[name] = NoneStr THEN "TypeError"
            ELSE IF ~ReMatch(value, group[name]).matched THEN "fail"
            ELSE FilterAll(Tail(items), group)

\* file_filter is None or all(...)
FilterResult(filter, group) ==
    IF filter = "None" THEN "pass" ELSE FilterAll(Filter(filter), group)

\* f"{self.base_prefix}/{base_dir}" if base_dir else self.base_prefix
SearchPrefix(bp, base_dir) ==
    IF base_dir # NoneStr /\ base_dir # <<>> THEN bp \o Slash \o base_dir ELSE bp

\* max_count > 0 and num_loaded >= max_count, with an off-by-one comparison
MaxReached_OffByOne(max_count, num_loaded) == max_count > 0 /\ num_loaded > max_count

\* max_count > 0 and num_loaded >= max_count
MaxReached(max_count, num_loaded) == max_count > 0 /\ num_loaded >= max_count

\* a generator that has not been created
NoGen ==
    [state |-> "none", bp |-> NoneStr, pattern |-> "", base_dir |-> NoneStr,
     filter |-> "", max_count |-> -1, page |-> <<>>, idx |-> 0,
     truncated |-> FALSE, pages |-> 0, num_loaded |-> 0, num_filtered |-> 0,
     num_total |-> 0, yielded |-> <<>>, error |-> "", progress |-> FALSE,
     reports |-> <<>>]

\* the generator find returns: no line of find has run yet
NewGen(bp, pattern, base_dir, filter, max_count) ==
    [NoGen EXCEPT !.state = "created", !.bp = bp, !.pattern = pattern,
                  !.base_dir = base_dir, !.filter = filter, !.max_count = max_count]

\* the generator of find called with a progress callback
WithProgress(g) == [g EXCEPT !.progress = TRUE]

\* _create_progress_status that leaves the filtered keys out of completed_items
ProgressStatus_LoadedOnly(num_loaded, num_filtered, num_total) ==
    [total_items |-> num_total, completed_items |-> num_loaded,
     description |-> <<num_loaded, num_filtered>>]

\* _create_progress_status(num_loaded, num_filtered, num_total)
ProgressStatus(num_loaded, num_filtered, num_total) ==
    [total_items |-> num_total, completed_items |-> num_loaded + num_filtered,
     description |-> <<num_loaded, num_filtered>>]

\* if progress is not None: progress(_create_progress_status(...)); the report
\* is kept with the page it was made on
Report(g) ==
    IF g.progress
    THEN [g EXCEPT !.reports =
            Append(g.reports,
                   [status |-> ProgressStatus(g.num_loaded, g.num_filtered, g.num_total),
                    page |-> g.pages])]
    ELSE g

\* the paginator fetches the next page, and the loop over it starts at its
\* second key
FetchPage_SkipsFirst(b, g, token) ==
    LET page == ListPage(b, SearchPrefix(g.bp, g.base_dir), token) IN
    [g EXCEPT !.page = page.Contents, !.idx = IF page.Contents = <<>> THEN 0 ELSE 1,
              !.truncated = page.IsTruncated, !.pages = g.pages + 1]

\* the paginator fetches the next page into the generator
FetchPage(b, g, token) ==
    LET page == ListPage(b, SearchPrefix(g.bp, g.base_dir), token) IN
    [g EXCEPT !.page = page.Contents, !.idx = 0,
              !.truncated = page.IsTruncated, !.pages = g.pages + 1]

\* the loops of find from the key after position idx of the current page,
\* up to the next yield, the end of the listing, or an exception
RECURSIVE Scan(_, _)
Scan(b, g) ==
    IF g.idx < Len(g.page) THEN
        LET key == g.page[g.idx + 1]
            match == ReMatch(Pattern(g.pattern), key)
            seen == [g EXCEPT !.idx = g.idx + 1, !.num_total = g.num_total + 1]
            verdict == FilterResult(g.filter, match.group)
        IN IF ~match.matched
           THEN Scan(b, Report([seen EXCEPT !.num_filtered = g.num_filtered + 1]))
           ELSE IF verdict = "pass"
           THEN [seen EXCEPT !.state = "suspended",
                             !.yielded = Append(g.yielded,
                                                [key |-> key, group |-> match.group])]
           ELSE IF verdict = "fail"
           THEN Scan(b, Report([seen EXCEPT !.num_filtered = g.num_filtered + 1]))
           ELSE [seen EXCEPT !.state = "raised", !.error = verdict]
    ELSE IF g.truncated
    THEN Scan(b, FetchPage(b, g, g.page[Len(g.page)]))
    ELSE [g EXCEPT !.state = "done"]

\* next(generator): run find from where it stands to its next yield or end
Resume(b, g) ==
    IF g.state = "created" THEN Scan(b, FetchPage(b, g, NoneStr))
    ELSE LET loaded == [g EXCEPT !.num_loaded = g.num_loaded + 1] IN
         IF MaxReached(g.max_count, loaded.num_loaded)
         THEN [loaded EXCEPT !.state = "done"]
         ELSE Scan(b, Report(loaded))

(***************************************************************************)
(* State                                                                   *)
(*   bucket     the objects of the S3 bucket: full key -> body             *)
(*   instances  the base_prefix of every S3PipelineStorage instance        *)
(*   lastOp     the last completed call, its arguments and what it         *)
(*              returned                                                   *)
(*   gen        the generator of a find call                               *)
(*   gen2       the generator of a second find call on the same instance   *)
(*   storage    load_storage's call: its config and what it constructed    *)
(*   loader     s3_text's load: its config, position and rows              *)
(***************************************************************************)
\* the S3 client call made by an operation succeeds or fails as S3 decides
NoFault == [exc |-> "none", code |-> ""]

\* failures of an S3 client call that have nothing to do with the key: a
\* ClientError response (access denied), and a connection error, which
\* botocore raises as a BotoCoreError, not a ClientError
Faults ==
    { [exc |-> "ClientError", code |-> "AccessDenied"],
      [exc |-> "EndpointConnectionError", code |-> ""] }

\* the exception leaves the operation
Raise(fault) == [kind |-> "raise", data |-> <<fault.exc, fault.code>>]

\* load_storage / s3_text's load has not been called
Idle == [pc |-> "idle"]

Call(op, bp, key) ==
    [op |-> op, inst |-> bp, key |-> key, value |-> Plain("None"),
     as_bytes |-> FALSE, encoding |-> "None", ret |-> Plain("None"),
     retInst |-> NoneStr, calls |-> 0, fault |-> NoFault]

Init ==
    /\ bucket = << >>
    /\ instances \in { {bp} : bp \in InitPrefixes }
    /\ lastOp = Call("init", NoneStr, NoneStr)
    /\ gen = NoGen
    /\ gen2 = NoGen
    /\ storage = Idle
    /\ loader = Idle

Set(bp, key, value, encoding) ==
    /\ bucket' = SetResult(bucket, bp, key, value, encoding)
    /\ lastOp' = [Call("set", bp, key) EXCEPT
                    !.value = value, !.encoding = encoding,
                    !.ret = IF SetBody(value, encoding).kind = "bytes"
                            THEN Plain("None") ELSE SetBody(value, encoding)]
    /\ UNCHANGED <<instances, gen, aux>>

Get(bp, key, as_bytes, encoding) ==
    /\ lastOp' = [Call("get", bp, key) EXCEPT
                    !.as_bytes = as_bytes, !.encoding = encoding,
                    !.ret = GetResult(bucket, bp, key, as_bytes, encoding)]
    /\ UNCHANGED <<bucket, instances, gen, aux>>

Has(bp, key) ==
    /\ lastOp' = [Call("has", bp, key) EXCEPT
                    !.ret = IF HasResult(bucket, bp, key)
                            THEN Plain("True") ELSE Plain("False")]
    /\ UNCHANGED <<bucket, instances, gen, aux>>

Delete(bp, key) ==
    /\ bucket' = DeleteResult(bucket, bp, key)
    /\ lastOp' = Call("delete", bp, key)
    /\ UNCHANGED <<instances, gen, aux>>

Clear(bp) ==
    /\ bucket' = ClearResult(bucket, bp).bucket
    /\ lastOp' = [Call("clear", bp, NoneStr) EXCEPT
                    !.calls = ClearResult(bucket, bp).calls]
    /\ UNCHANGED <<instances, gen, aux>>

Child(bp, name) ==
    /\ ChildPrefix(bp, name) \in instances \/ Cardinality(instances) < MaxInst
    /\ instances' = instances \cup {ChildPrefix(bp, name)}
    /\ lastOp' = [Call("child", bp, name) EXCEPT
                    !.ret = IF ChildIsSelf(bp, name)
                            THEN Plain("self") ELSE Plain("new"),
                    !.retInst = ChildPrefix(bp, name)]
    /\ UNCHANGED <<bucket, gen, aux>>

FindStart(bp, pattern, base_dir, filter, max_count) ==
    /\ gen' = NewGen(bp, pattern, base_dir, filter, max_count)
    /\ UNCHANGED <<bucket, instances, lastOp, aux>>

FindNext ==
    /\ gen.state \in {"created", "suspended"}
    /\ gen' = Resume(bucket, gen)
    /\ UNCHANGED <<bucket, instances, lastOp, aux>>

DoSet == \E bp \in instances, key \in Keys, a \in SetArgs : Set(bp, key, a[1], a[2])

DoGet == \E bp \in instances, key \in Keys, a \in GetArgs : Get(bp, key, a[1], a[2])

DoHas == \E bp \in instances, key \in Keys : Has(bp, key)

DoDelete == \E bp \in instances, key \in Keys : Delete(bp, key)

DoClear == \E bp \in instances : Clear(bp)

DoChild == \E bp \in instances, name \in ChildNames : Child(bp, name)

Next == DoSet \/ DoGet \/ DoHas \/ DoDelete \/ DoClear \/ DoChild

Spec == Init /\ [][Next]_vars

(***************************************************************************)
(* The operations when the S3 client call fails                            *)
(***************************************************************************)
\* get, lines 75-87: except ClientError: 'NoSuchKey' returns None, any other
\* code is raised again; an exception that is no ClientError is not caught
GetOutcome(b, bp, key, as_bytes, encoding, fault) ==
    IF fault = NoFault THEN GetResult(b, bp, key, as_bytes, encoding)
    ELSE IF fault.exc = "ClientError" /\ fault.code = "NoSuchKey" THEN Plain("None")
    ELSE Raise(fault)

\* has, lines 100-105: except ClientError: return False
HasOutcome(b, bp, key, fault) ==
    IF fault = NoFault
    THEN (IF HasResult(b, bp, key) THEN Plain("True") ELSE Plain("False"))
    ELSE IF fault.exc = "ClientError" THEN Plain("False")
    ELSE Raise(fault)

GetFault(bp, key, as_bytes, encoding, fault) ==
    /\ lastOp' = [Call("get", bp, key) EXCEPT
                    !.as_bytes = as_bytes, !.encoding = encoding, !.fault = fault,
                    !.ret = GetOutcome(bucket, bp, key, as_bytes, encoding, fault)]
    /\ UNCHANGED <<bucket, instances, gen, aux>>

HasFault(bp, key, fault) ==
    /\ lastOp' = [Call("has", bp, key) EXCEPT
                    !.fault = fault, !.ret = HasOutcome(bucket, bp, key, fault)]
    /\ UNCHANGED <<bucket, instances, gen, aux>>

\* set, delete and clear have no except clause: put_object, delete_object
\* or the first list_objects_v2 raises, and nothing has been written
WriteFault(op, bp, key, fault) ==
    /\ lastOp' = [Call(op, bp, key) EXCEPT !.fault = fault, !.ret = Raise(fault)]
    /\ UNCHANGED <<bucket, instances, gen, aux>>

\* the pull would fetch a page: the first one, or the one after a page whose
\* last key was yielded
FetchesPage(g) ==
    \/ g.state = "created"
    \/ /\ g.state = "suspended" /\ g.idx = Len(g.page) /\ g.truncated
       /\ ~MaxReached(g.max_count, g.num_loaded + 1)

\* next(generator) when the paginator's list_objects_v2 fails: find has no
\* except clause, the exception leaves the generator
ResumeFault(g, fault) ==
    IF g.state = "created" THEN [g EXCEPT !.state = "raised", !.error = fault.exc]
    ELSE [Report([g EXCEPT !.num_loaded = g.num_loaded + 1]) EXCEPT
            !.state = "raised", !.error = fault.exc]

FindNextFault(fault) ==
    /\ FetchesPage(gen)
    /\ gen' = ResumeFault(gen, fault)
    /\ UNCHANGED <<bucket, instances, lastOp, aux>>

DoGetFault ==
    \E bp \in instances, key \in Keys, a \in GetArgs, fault \in Faults :
        GetFault(bp, key, a[1], a[2], fault)

DoHasFault == \E bp \in instances, key \in Keys, fault \in Faults : HasFault(bp, key, fault)

DoWriteFault ==
    \E bp \in instances, key \in Keys, fault \in Faults :
        \/ WriteFault("set", bp, key, fault)
        \/ WriteFault("delete", bp, key, fault)
        \/ WriteFault("clear", bp, NoneStr, fault)

DoFindNextFault == \E fault \in Faults : FindNextFault(fault)

\* a match-all find over the whole scope of the instance
DoFindAll == \E bp \in instances : FindStart(bp, ".*", NoneStr, "None", -1)

NextFault ==
    \/ DoSet \/ DoGet \/ DoHas \/ DoDelete \/ DoClear \/ DoFindAll \/ FindNext
    \/ DoGetFault \/ DoHasFault \/ DoWriteFault \/ DoFindNextFault

SpecFault == Init /\ [][NextFault]_vars

(***************************************************************************)
(* find over a bucket that already holds objects                           *)
(***************************************************************************)
\* full keys of the objects the bucket may hold when find is called
FindKeys ==
    { <<"b">>, <<"a", "/", "b">>, <<"b", "/", "b">>, <<"a", "/", "b", "/", "b">>,
      <<"a", "b">> }

InitFind ==
    /\ bucket \in { [k \in S |-> <<233>>] : S \in SUBSET FindKeys }
    /\ instances \in { {bp} : bp \in InitPrefixes }
    /\ lastOp = Call("init", NoneStr, NoneStr)
    /\ gen = NoGen
    /\ gen2 = NoGen
    /\ storage = Idle
    /\ loader = Idle

DoFindStart ==
    \E bp \in instances, pattern \in Patterns, base_dir \in BaseDirs,
       filter \in Filters, max_count \in MaxCounts :
        FindStart(bp, pattern, base_dir, filter, max_count)

NextFind == DoFindStart \/ FindNext \/ DoClear

SpecFind == InitFind /\ [][NextFind]_vars

(***************************************************************************)
(* find with a progress callback                                           *)
(***************************************************************************)
FindStartProgress(bp, pattern, base_dir, filter, max_count) ==
    /\ gen' = WithProgress(NewGen(bp, pattern, base_dir, filter, max_count))
    /\ UNCHANGED <<bucket, instances, lastOp, aux>>

DoFindStartProgress ==
    \E bp \in instances, pattern \in Patterns, base_dir \in BaseDirs,
       filter \in Filters, max_count \in MaxCounts :
        FindStartProgress(bp, pattern, base_dir, filter, max_count)

NextProgress == DoFindStartProgress \/ FindNext

SpecProgress == InitFind /\ [][NextProgress]_vars

(***************************************************************************)
(* Two find iterations on one instance, consumed in any interleaving       *)
(***************************************************************************)
\* file_pattern, file_filter and max_count of the two find calls
PairArgs ==
    { <<pattern, filter, max_count>> :
        pattern \in Patterns, filter \in {"None", "{y: a}"}, max_count \in {-1, 1} }

\* a pull of one generator writes the counters of the other one too, as if
\* num_loaded, num_filtered and num_total were fields of the instance
Bystander_SharedCounters(g, pulled) ==
    IF g.state = "none" THEN g
    ELSE [g EXCEPT !.num_loaded = pulled.num_loaded,
                   !.num_filtered = pulled.num_filtered,
                   !.num_total = pulled.num_total]

\* what a pull of one generator leaves of the other generator: search_prefix,
\* paginator and the counters are locals of one call of find (lines 41-46)
\* and find assigns no attribute of self
Bystander(g, pulled) == g

FindStart1(bp, a) ==
    /\ gen' = WithProgress(NewGen(bp, a[1], NoneStr, a[2], a[3]))
    /\ UNCHANGED <<bucket, instances, lastOp, aux>>

FindStart2(bp, a) ==
    /\ gen2' = WithProgress(NewGen(bp, a[1], NoneStr, a[2], a[3]))
    /\ UNCHANGED <<bucket, instances, lastOp, gen, storage, loader>>

Pull1 ==
    /\ gen.state \in {"created", "suspended"}
    /\ gen' = Resume(bucket, gen)
    /\ gen2' = Bystander(gen2, Resume(bucket, gen))
    /\ UNCHANGED <<bucket, instances, lastOp, storage, loader>>

Pull2 ==
    /\ gen2.state \in {"created", "suspended"}
    /\ gen2' = Resume(bucket, gen2)
    /\ gen' = Bystander(gen, Resume(bucket, gen2))
    /\ UNCHANGED <<bucket, instances, lastOp, storage, loader>>

DoFindStart1 == \E bp \in instances, a \in PairArgs : FindStart1(bp, a)

DoFindStart2 == \E bp \in instances, a \in PairArgs : FindStart2(bp, a)

NextPair == DoFindStart1 \/ DoFindStart2 \/ Pull1 \/ Pull2

SpecPair == InitFind /\ [][NextPair]_vars

(***************************************************************************)
(* load_storage (src/graphrag/index/storage/load_storage.py)               *)
(***************************************************************************)
\* the members of StorageType that load_storage has a case for
StorageTypes == { "memory", "blob", "file", "s3" }

\* a storage config: its type tag and the fields load_storage reads; a field
\* the config's class does not have is None
Config(type) ==
    [type |-> type, base_dir |-> "None", connection_string |-> "None",
     storage_account_blob_url |-> "None", container_name |-> "None",
     aws_access_key_id |-> "None", aws_secret_access_key |-> "None",
     bucket_name |-> "None", base_prefix |-> NoneStr, region_name |-> "None"]

\* the configs handed to load_storage: one of each config class with its
\* optional fields set or None, and configs whose tag is no storage type
StorageConfigs ==
    { Config("memory") }
    \cup { [Config("file") EXCEPT !.base_dir = d] : d \in {"None", "out"} }
    \cup { [Config("blob") EXCEPT !.connection_string = c, !.container_name = "box",
                                 !.storage_account_blob_url = u, !.base_dir = d] :
             c \in {"None", "conn"}, u \in {"None", "url"}, d \in {"None", "out"} }
    \cup { [Config("s3") EXCEPT !.aws_access_key_id = k, !.aws_secret_access_key = k,
                               !.bucket_name = "bkt", !.base_prefix = bp,
                               !.region_name = r] :
             k \in {"None", "key"}, r \in {"None", "eu"},
             bp \in InitPrefixes \cup {NoneStr} }
    \cup { Config("ftp"), Config("None") }

\* load_storage hands blob storage the arguments of file storage
LoadStorage_BlobAsFile(config) ==
    CASE config.type = "memory" ->
            [raised |-> FALSE, factory |-> "create_memory_storage", args |-> <<>>]
      [] config.type = "blob" ->
            [raised |-> FALSE, factory |-> "create_file_storage",
             args |-> <<config.base_dir>>]
      [] config.type = "file" ->
            [raised |-> FALSE, factory |-> "create_file_storage",
             args |-> <<config.base_dir>>]
      [] config.type = "s3" ->
            [raised |-> FALSE, factory |-> "create_s3_storage",
             args |-> <<config.aws_access_key_id, config.aws_secret_access_key,
                        config.bucket_name, config.base_prefix, config.region_name>>]
      [] OTHER ->
            [raised |-> TRUE, factory |-> "none",
             args |-> <<"ValueError", "Unknown storage type: ", config.type>>]

\* match config.type: the factory load_storage calls and its arguments, or
\* the ValueError of case _
LoadStorage(config) ==
    CASE config.type = "memory" ->
            [raised |-> FALSE, factory |-> "create_memory_storage", args |-> <<>>]
      [] config.type = "blob" ->
            [raised |-> FALSE, factory |-> "create_blob_storage",
             args |-> <<config.connection_string, config.storage_account_blob_url,
                        config.container_name, config.base_dir>>]
      [] config.type = "file" ->
            [raised |-> FALSE, factory |-> "create_file_storage",
             args |-> <<config.base_dir>>]
      [] config.type = "s3" ->
            [raised |-> FALSE, factory |-> "create_s3_storage",
             args |-> <<config.aws_access_key_id, config.aws_secret_access_key,
                        config.bucket_name, config.base_prefix, config.region_name>>]
      [] OTHER ->
            [raised |-> TRUE, factory |-> "none",
             args |-> <<"ValueError", "Unknown storage type: ", config.type>>]

\* self.base_prefix = base_prefix or ""
InstancePrefix(base_prefix) == IF base_prefix = NoneStr THEN <<>> ELSE base_prefix

\* the instances alive once the factory has returned: create_s3_storage
\* constructs an S3PipelineStorage from its arguments, the other factories
\* construct no S3PipelineStorage
Constructed(result) ==
    IF result.factory = "create_s3_storage"
    THEN { InstancePrefix(result.args[4]) } ELSE {}

\* the kind of backend each factory returns
BackendKind(factory) ==
    CASE factory = "create_memory_storage" -> "memory"
      [] factory = "create_blob_storage" -> "blob"
      [] factory = "create_file_storage" -> "file"
      [] factory = "create_s3_storage" -> "s3"
      [] OTHER -> "none"

DoLoadStorage ==
    /\ storage.pc = "called"
    /\ storage' = [pc |-> "returned", config |-> storage.config,
                   result |-> LoadStorage(storage.config)]
    /\ instances' = Constructed(LoadStorage(storage.config))
    /\ UNCHANGED <<bucket, lastOp, gen, gen2, loader>>

\* load_storage is about to run on a config; no storage exists yet
InitLoad ==
    /\ bucket = << >>
    /\ instances = {}
    /\ lastOp = Call("init", NoneStr, NoneStr)
    /\ gen = NoGen
    /\ gen2 = NoGen
    /\ storage \in { [pc |-> "called", config |-> c] : c \in StorageConfigs }
    /\ loader = Idle

\* load_storage, then the storage it returned is used
NextLoad == DoLoadStorage \/ DoSet \/ DoGet \/ DoHas

SpecLoad == InitLoad /\ [][NextLoad]_vars

(***************************************************************************)
(* s3_text's load (src/graphrag/index/input/s3_text.py)                    *)
(***************************************************************************)
DotTxt == <<".", "t", "x", "t">>

\* key.endswith(suffix)
EndsWith(s, suffix) ==
    Len(s) >= Len(suffix) /\ OccursAt(s, suffix, Len(s) - Len(suffix) + 1)

\* str(Path(key).name): what follows the last '/' of the key
RECURSIVE PathName(_)
PathName(key) ==
    IF FindFrom(key, Slash, 1) = 0 THEN key
    ELSE PathName(SubSeq(key, FindFrom(key, Slash, 1) + 1, Len(key)))

\* full keys and bodies of the objects the input bucket may hold: text
\* files in and beside the prefix 'a', another object, and a text file whose
\* body is no UTF-8
TextObjects ==
    ((<<"a", "/", "b">> \o DotTxt) :> <<195, 169>>)
    @@ (<<"a", "/", "b">> :> <<195, 169>>)
    @@ ((<<"a", "/", "b", "b">> \o DotTxt) :> <<233>>)
    @@ ((<<"a", "b">> \o DotTxt) :> <<98>>)
    @@ ((<<"b">> \o DotTxt) :> <<98>>)

\* config.file_pattern values, by name
TextPatterns == { ".*", "a/b" }

\* config.base_prefix values (bucket_name is set)
TextPrefixes == { <<>>, <<"a">> }

\* the loop over the pages of the listing, lines 55-61: the (key, group) of
\* every listed key that ends with '.txt' and that the pattern matches
RECURSIVE ListFiles(_, _, _, _)
ListFiles(b, prefix, pattern, token) ==
    LET page == ListPage(b, prefix, token)
        Test(k) == EndsWith(k, DotTxt) /\ ReMatch(Pattern(pattern), k).matched
        keys == SelectSeq(page.Contents, Test)
        files == [j \in 1..Len(keys) |->
                    [key |-> keys[j], group |-> ReMatch(Pattern(pattern), keys[j]).group]]
    IN IF page.IsTruncated
       THEN files \o ListFiles(b, prefix, pattern, page.Contents[Len(page.Contents)])
       ELSE files

\* load has been called with a config
NewLoad(base_prefix, pattern) ==
    [pc |-> "called", base_prefix |-> base_prefix, pattern |-> pattern,
     files |-> <<>>, i |-> 0, files_loaded |-> <<>>, faults |-> <<>>,
     warnings |-> <<>>, error |-> ""]

\* lines 31-66: the check of the config and the listing; fault is the
\* outcome of the paginator's list_objects_v2
AfterListing(l, b, fault) ==
    IF l.base_prefix = <<>> THEN [l EXCEPT !.pc = "raised", !.error = "ValueError"]
    ELSE IF fault # NoFault THEN [l EXCEPT !.pc = "raised", !.error = fault.exc]
    ELSE LET files == ListFiles(b, l.base_prefix, l.pattern, NoneStr) IN
         IF Len(files) = 0 THEN [l EXCEPT !.pc = "raised", !.error = "ValueError"]
         ELSE [l EXCEPT !.pc = "loading", !.files = files, !.i = 1]

\* load_file(file, group), lines 36-48: the row, or the exception it raises
LoadFile(b, file, fault) ==
    IF fault # NoFault THEN Raise(fault)
    ELSE IF file.key \notin DOMAIN b THEN Raise([exc |-> "ClientError", code |-> "NoSuchKey"])
    ELSE LET text == Decode(b[file.key], "utf-8") IN
         IF text.kind # "str" THEN text
         ELSE [kind |-> "row", data |-> text.data, title |-> PathName(file.key),
               group |-> file.group]

\* the move to the next file of the loop, or the return after the last one
Advance(l) ==
    IF l.i = Len(l.files) THEN [l EXCEPT !.pc = "returned", !.i = l.i + 1]
    ELSE [l EXCEPT !.i = l.i + 1]

\* one pass of the loop of lines 70-77 in which a failed load_file ends the
\* load
AfterFile_Abort(l, b, fault) ==
    LET item == LoadFile(b, l.files[l.i], fault)
        tried == [l EXCEPT !.faults = Append(l.faults, fault)]
    IN IF item.kind = "row"
       THEN Advance([tried EXCEPT !.files_loaded = Append(l.files_loaded, item)])
       ELSE [tried EXCEPT !.pc = "raised", !.error = item.kind]

\* one pass of the loop of lines 70-77: the row is appended, or except
\* Exception logs a warning and the loop goes on
AfterFile(l, b, fault) ==
    LET item == LoadFile(b, l.files[l.i], fault)
        tried == [l EXCEPT !.faults = Append(l.faults, fault)]
    IN IF item.kind = "row"
       THEN Advance([tried EXCEPT !.files_loaded = Append(l.files_loaded, item)])
       ELSE Advance([tried EXCEPT !.warnings = Append(l.warnings, l.files[l.i].key)])

ListText(fault) ==
    /\ loader.pc = "called"
    /\ loader' = AfterListing(loader, bucket, fault)
    /\ UNCHANGED <<bucket, instances, lastOp, gen, gen2, storage>>

LoadText(fault) ==
    /\ loader.pc = "loading"
    /\ loader' = AfterFile(loader, bucket, fault)
    /\ UNCHANGED <<bucket, instances, lastOp, gen, gen2, storage>>

DoListText == \E fault \in Faults \cup {NoFault} : ListText(fault)

DoLoadText == \E fault \in Faults \cup {NoFault} : LoadText(fault)

\* load is about to run on a bucket that holds some of the objects
InitText ==
    /\ bucket \in { [k \in S |-> TextObjects[k]] : S \in SUBSET DOMAIN TextObjects }
    /\ instances = {}
    /\ lastOp = Call("init", NoneStr, NoneStr)
    /\ gen = NoGen
    /\ gen2 = NoGen
    /\ storage = Idle
    /\ loader \in { NewLoad(bp, pattern) : bp \in TextPrefixes, pattern \in TextPatterns }

NextText == DoListText \/ DoLoadText

SpecText == InitText /\ [][NextText]_vars

(***************************************************************************)
(* Properties of get / set / has / delete / clear / child                  *)
(***************************************************************************)
\* get reads a value back the way set wrote it: bytes with as_bytes, text
\* with the encoding set was given
ReadsBack(setOp, getOp) ==
    /\ setOp.op = "set" /\ setOp.ret = Plain("None")
    /\ getOp.op = "get"
    /\ IF setOp.value.kind = "bytes" THEN getOp.as_bytes
       ELSE ~getOp.as_bytes /\ getOp.encoding = setOp.encoding

\* a key of the scope of an instance: every key for the empty base_prefix,
\* the keys under base_prefix/ otherwise
InScope(bp, fk) == bp = <<>> \/ StartsWith(fk, bp \o Slash)

\* the instances alive and the ones child can derive from them
Prefixes == instances \cup { ChildPrefix(bp, name) : bp \in instances, name \in ChildNames }

\* C1: set(k, v) followed at once by get(k) on the same instance returns v,
\* for every base_prefix, key and value.
C1_SetThenGet ==
    [][ (/\ ReadsBack(lastOp, lastOp')
         /\ lastOp'.inst = lastOp.inst
         /\ lastOp'.key = lastOp.key)
        => lastOp'.ret = lastOp.value ]_vars

\* C2: get and has resolve a key to the same object: in every state, for
\* every instance and key, has(k) is true exactly when get(k) returns
\* content rather than None.
C2_HasIffGet ==
    \A bp \in instances, key \in Keys :
        HasResult(bucket, bp, key)
            <=> GetResult(bucket, bp, key, TRUE, "None") # Plain("None")

\* C3 as stated: has(k) on an instance turns true only by a set(k, ...) on
\* that same instance.
C3_HasOnlyAfterOwnSet ==
    [][ \A bp \in instances, key \in Keys :
          (~HasResult(bucket, bp, key) /\ HasResult(bucket', bp, key))
          => (lastOp'.op = "set" /\ lastOp'.inst = bp /\ lastOp'.key = key) ]_vars

\* C3 (amended): has(k) is false on the fresh bucket and stays false until a
\* set, through any instance, writes the full key k resolves to; and has(k)
\* called right after set(k, v) on the same instance returns true.
C3_HasFalseUntilSet ==
    /\ \A bp \in Prefixes, key \in Keys : ~HasResult(bucket, bp, key)
    /\ [][ bucket' # bucket =>
            \A bp \in Prefixes', key \in Keys :
             (~HasResult(bucket, bp, key) /\ HasResult(bucket', bp, key))
             => (/\ lastOp'.op = "set"
                 /\ FullKey(lastOp'.inst, lastOp'.key) = FullKey(bp, key)) ]_vars
    /\ [][ (/\ lastOp.op = "set" /\ lastOp.ret = Plain("None")
            /\ lastOp'.op = "has"
            /\ lastOp'.inst = lastOp.inst /\ lastOp'.key = lastOp.key)
           => lastOp'.ret = Plain("True") ]_vars

\* has answered true for a key of an instance with a non-empty base_prefix
C3_Witness ==
    lastOp.op = "has" /\ lastOp.ret = Plain("True") /\ lastOp.inst # <<>>

\* C4: after delete(k), has(k) is false; delete of an absent key (a second
\* delete, or a key never set) returns normally and leaves the bucket as
\* it was.
C4_DeleteIdempotent ==
    /\ [](lastOp.op = "delete" => ~HasResult(bucket, lastOp.inst, lastOp.key))
    /\ [][ lastOp'.op = "delete"
           => /\ lastOp'.ret = Plain("None")
              /\ (~HasResult(bucket, lastOp'.inst, lastOp'.key) => bucket' = bucket)
              /\ \A fk \in DOMAIN bucket \ {FullKey(lastOp'.inst, lastOp'.key)} :
                    fk \in DOMAIN bucket' /\ bucket'[fk] = bucket[fk] ]_vars
    /\ [][ (/\ lastOp.op = "delete" /\ lastOp'.op = "has"
            /\ lastOp'.inst = lastOp.inst /\ lastOp'.key = lastOp.key)
           => lastOp'.ret = Plain("False") ]_vars

\* a delete has returned and other objects are left in the bucket
C4_Witness == lastOp.op = "delete" /\ DOMAIN bucket # {}

\* C6: set, delete and clear through an instance never create, change or
\* remove a key outside the scope of that instance.
C6_StaysInScope ==
    [][ lastOp'.op \in {"set", "delete", "clear"}
        => \A fk \in DOMAIN bucket \cup DOMAIN bucket' :
              \/ InScope(lastOp'.inst, fk)
              \/ (/\ fk \in DOMAIN bucket /\ fk \in DOMAIN bucket'
                  /\ bucket'[fk] = bucket[fk]) ]_vars

\* C7: child(name) with a non-empty name constructs an instance whose prefix
\* is base_prefix/name (name for an empty base_prefix), and get(name/k) on
\* the parent right after set(k, v) on the child returns v.
C7_ChildSetParentGet ==
    /\ [](lastOp.op = "child" /\ lastOp.key \notin {NoneStr, <<>>}
          => /\ lastOp.ret = Plain("new")
             /\ lastOp.retInst = IF lastOp.inst = <<>> THEN lastOp.key
                                 ELSE lastOp.inst \o Slash \o lastOp.key)
    /\ [][ (/\ ReadsBack(lastOp, lastOp')
            /\ \E name \in ChildNames \ {NoneStr, <<>>} :
                  /\ lastOp.inst = ChildPrefix(lastOp'.inst, name)
                  /\ lastOp'.key = name \o Slash \o lastOp.key)
           => lastOp'.ret = lastOp.value ]_vars

\* C8: child(None) and child("") return the receiver itself; the prefix of
\* the instance returned is the receiver's.
C8_ChildNoName ==
    (lastOp.op = "child" /\ lastOp.key \in {NoneStr, <<>>})
    => (lastOp.ret = Plain("self") /\ lastOp.retInst = lastOp.inst)

(***************************************************************************)
(* Properties of find and clear                                            *)
(***************************************************************************)
\* a step in which the consumer pulls the next entry from the generator
Pulled == gen.state \in {"created", "suspended"} /\ gen' # gen /\ gen'.state # "created"

C9_MaxCountStopsScan ==
    /\ [](gen.max_count > 0 => Len(gen.yielded) <= gen.max_count)
    /\ [][ (/\ Pulled /\ gen.state = "suspended"
            /\ gen.max_count > 0 /\ Len(gen.yielded) = gen.max_count)
           => (/\ gen'.state = "done"
               /\ gen'.yielded = gen.yielded
               /\ gen'.num_total = gen.num_total
               /\ gen'.idx = gen.idx /\ gen'.page = gen.page
               /\ gen'.pages = gen.pages) ]_vars
    /\ []((gen.state = "done" /\ gen.max_count <= 0)
          => (gen.idx = Len(gen.page) /\ ~gen.truncated))

\* find has ended on max_count = 1 after one entry, with keys of the page
\* or further pages left unexamined
C9_Witness ==
    /\ gen.state = "done" /\ gen.max_count = 1 /\ Len(gen.yielded) = 1
    /\ (gen.idx < Len(gen.page) \/ gen.truncated)

\* every entry of the filter names a group of the entry that has a value
\* the filter's pattern matches
MatchesFilter(filter, group) ==
    \A j \in 1..Len(Filter(filter)) :
        LET name == Filter(filter)[j][1] IN
        /\ name \in DOMAIN group
        /\ group[name] # NoneStr
        /\ ReMatch(Filter(filter)[j][2], group[name]).matched

\* C10: find with a filter yields only entries whose groups match every
\* filter entry, and never raises: a key whose filtered group does not
\* match, took no part in the match or is no group of the pattern is
\* counted as filtered and the scan goes on.
C10_FilterNeverRaises ==
    /\ gen.state # "raised"
    /\ \A j \in 1..Len(gen.yielded) : MatchesFilter(gen.filter, gen.yielded[j].group)
    /\ gen.state = "done" => gen.num_loaded + gen.num_filtered = gen.num_total

(***************************************************************************)
(* Properties of find: what it yields                                      *)
(***************************************************************************)
\* the pattern matches the whole of s (re.fullmatch)
ReFullMatch(re, s) ==
    LET found == M(re, s, 1, [n \in GroupNames(re) |-> NoneStr]) IN
    \E j \in 1..Len(found) : found[j].pos = Len(s) + 1

\* every key of the bucket that starts with prefix, in listing order
Listing(b, prefix) ==
    LET S == KeysAfter(b, prefix, NoneStr) IN FirstKeys(S, Cardinality(S))

\* the keys of the entries the generator has yielded, in order
YieldedKeys(g) == [j \in 1..Len(g.yielded) |-> g.yielded[j].key]

\* s is the first Len(s) elements of t
IsPrefix(s, t) == Len(s) <= Len(t) /\ s = SubSeq(t, 1, Len(s))

\* find was called without filter and without max_count, and the store has
\* not changed since
Unfiltered == gen.filter = "None" /\ gen.max_count <= 0 /\ lastOp.op = "init"

\* the listed keys the pattern matches from their first character
MatchingKeys ==
    LET Test(k) == ReMatch(Pattern(gen.pattern), k).matched IN
    SelectSeq(Listing(bucket, SearchPrefix(gen.bp, gen.base_dir)), Test)

\* the listed keys the pattern matches from first to last character
FullyMatchingKeys ==
    LET Test(k) == ReFullMatch(Pattern(gen.pattern), k) IN
    SelectSeq(Listing(bucket, SearchPrefix(gen.bp, gen.base_dir)), Test)

\* C11 as stated: without filter and without max_count, a finished find has
\* yielded exactly the listed keys that the pattern matches in full.
C11_YieldsFullMatches ==
    (Unfiltered /\ gen.state = "done") => YieldedKeys(gen) = FullyMatchingKeys

\* C11: without filter and without max_count, find yields exactly the keys
\* listed under search_prefix that the pattern matches from their first
\* character (the match need not reach the end of the key), each once, in
\* listing order across all pages, as (full bucket key, capture groups)
\* pairs, and no step of find changes the store.
C11_YieldsMatches ==
    /\ []((Unfiltered /\ gen.state \in {"suspended", "done"})
           => IsPrefix(YieldedKeys(gen), MatchingKeys))
    /\ []((Unfiltered /\ gen.state = "done") => YieldedKeys(gen) = MatchingKeys)
    /\ [](\A j \in 1..Len(gen.yielded) :
            /\ gen.yielded[j].key \in DOMAIN bucket \/ lastOp.op # "init"
            /\ gen.yielded[j].group =
                   ReMatch(Pattern(gen.pattern), gen.yielded[j].key).group)
    /\ [][gen' # gen => bucket' = bucket]_vars

\* an unfiltered find over three pages has ended having yielded two keys,
\* one of which the pattern matches only in its first character
C11_Witness ==
    /\ Unfiltered /\ gen.state = "done" /\ gen.pages = 3
    /\ Len(gen.yielded) = 2
    /\ \E j \in 1..2 : ~ReFullMatch(Pattern(gen.pattern), gen.yielded[j].key)

(***************************************************************************)
(* Properties of the operations when S3 fails                              *)
(***************************************************************************)
\* C12: get on a key whose object does not exist returns None and raises
\* nothing; when the client fails with an error other than 'NoSuchKey' get
\* raises; and get never returns None for a key whose object exists.
C12_GetNoneIffAbsent ==
    lastOp.op = "get" =>
        /\ (lastOp.fault = NoFault /\ FullKey(lastOp.inst, lastOp.key) \notin DOMAIN bucket)
              => lastOp.ret = Plain("None")
        /\ lastOp.fault # NoFault => lastOp.ret = Raise(lastOp.fault)
        /\ lastOp.ret = Plain("None")
              => FullKey(lastOp.inst, lastOp.key) \notin DOMAIN bucket

\* C13: a failure of the client during find, get, set, has, delete or clear
\* reaches the caller as an error; has does not answer false instead.
C13_FaultsPropagate ==
    /\ [](lastOp.fault # NoFault => lastOp.ret = Raise(lastOp.fault))
    /\ [][ (FetchesPage(gen) /\ gen' # gen /\ gen'.state # "created"
              /\ gen'.pages = gen.pages)
           => (gen'.state = "raised" /\ gen'.yielded = gen.yielded) ]_vars

(***************************************************************************)
(* Properties of load_storage                                              *)
(***************************************************************************)
\* C14: load_storage decides by the config's type tag alone: memory, blob,
\* file and s3 each call the factory of the matching backend, with the
\* fields of the config as arguments, and any other tag raises ValueError
\* 'Unknown storage type' with no factory called and no storage constructed.
C14_DispatchOnType ==
    storage.pc = "returned" =>
        LET config == storage.config
            result == storage.result
        IN /\ config.type \in StorageTypes
                => /\ ~result.raised
                   /\ BackendKind(result.factory) = config.type
                   /\ (config.type = "s3") = (instances # {})
           /\ config.type = "blob"
                => result.args = <<config.connection_string,
                                   config.storage_account_blob_url,
                                   config.container_name, config.base_dir>>
           /\ config.type = "s3"
                => instances = { InstancePrefix(config.base_prefix) }
           /\ config.type \notin StorageTypes
                => /\ result.raised /\ result.factory = "none"
                   /\ result.args[1] = "ValueError"
                   /\ result.args[2] = "Unknown storage type: "
                   /\ instances = {} /\ bucket = << >>
           /\ \A other \in StorageConfigs :
                other.type = config.type
                    => LoadStorage(other).factory = result.factory

\* load_storage has raised on a config whose tag names no storage type
C14_Witness ==
    /\ storage.pc = "returned" /\ storage.config.type = "ftp"
    /\ storage.result.raised /\ instances = {}

(***************************************************************************)
(* Properties of find's progress reports                                   *)
(***************************************************************************)
\* C15: the progress callback is invoked once after each page has been
\* processed, the last one included, and not once per key: report number p
\* is made on page p, and a find that has ended after listing at least one
\* key has reported once per page.
C15_OneReportPerPage ==
    gen.progress =>
        /\ \A j \in 1..Len(gen.reports) : gen.reports[j].page = j
        /\ Len(gen.reports) <= gen.pages
        /\ (gen.state = "done" /\ gen.num_total > 0) => Len(gen.reports) = gen.pages

\* C19: at every progress report num_loaded + num_filtered = num_total
\* (completed_items = total_items): report number j is made when j keys
\* have been enumerated, each counted once as loaded or as filtered, and
\* the num_loaded it carries is the number of entries yielded so far.
C19_ReportsAreComplete ==
    /\ [](\A j \in 1..Len(gen.reports) :
            LET status == gen.reports[j].status IN
            /\ status.completed_items = status.total_items
            /\ status.total_items = j
            /\ status.description[1] + status.description[2] = j)
    /\ [][ Pulled =>
            /\ SubSeq(gen'.reports, 1, Len(gen.reports)) = gen.reports
            /\ \A j \in (Len(gen.reports) + 1)..Len(gen'.reports) :
                    gen'.reports[j].status.description[1] = Len(gen.yielded) ]_vars

\* find has ended after reports that carry loaded and filtered keys, made on
\* more than one page
C19_Witness ==
    /\ gen.progress /\ gen.state = "done" /\ Len(gen.reports) >= 4
    /\ gen.reports[4].status.description[1] >= 2
    /\ gen.reports[4].status.description[2] >= 1
    /\ gen.reports[4].page >= 2

(***************************************************************************)
(* Properties of s3_text's load                                            *)
(***************************************************************************)
\* the keys of the bucket under the prefix that end with '.txt' and that the
\* pattern matches, in listing order
TextKeys ==
    LET Test(k) == EndsWith(k, DotTxt) /\ ReMatch(Pattern(loader.pattern), k).matched
    IN SelectSeq(Listing(bucket, loader.base_prefix), Test)

\* the positions among the first n listed files whose fetch succeeded: the
\* client did not fail and the body is UTF-8
RECURSIVE Fetched(_)
Fetched(n) ==
    IF n = 0 THEN <<>>
    ELSE IF /\ loader.faults[n] = NoFault
            /\ Decode(bucket[loader.files[n].key], "utf-8").kind = "str"
         THEN Append(Fetched(n - 1), n)
         ELSE Fetched(n - 1)

\* C17: a file whose fetch fails is left out with a warning and the files
\* after it are still fetched: the rows are those of the listed '.txt' keys
\* matching the pattern whose fetch succeeded, in listing order, and load
\* returns after the last file; a failure of the listing ends load with that
\* error and no row; a listing without a matching file ends it with
\* ValueError.
C17_FailedFileIsSkipped ==
    /\ [](loader.pc \in {"loading", "returned"} =>
            /\ [j \in 1..Len(loader.files) |-> loader.files[j].key] = TextKeys
            /\ Len(loader.files) > 0
            /\ Len(loader.faults) = loader.i - 1
            /\ Len(loader.files_loaded) = Len(Fetched(loader.i - 1))
            /\ \A j \in 1..Len(loader.files_loaded) :
                    LET file == loader.files[Fetched(loader.i - 1)[j]] IN
                    /\ loader.files_loaded[j].title = PathName(file.key)
                    /\ loader.files_loaded[j].group = file.group
                    /\ Str(loader.files_loaded[j].data) = Decode(bucket[file.key], "utf-8")
            /\ Len(loader.files_loaded) + Len(loader.warnings) = loader.i - 1
            /\ (loader.pc = "returned") = (loader.i = Len(loader.files) + 1))
    /\ [][ (loader.pc = "called" /\ loader'.pc = "raised")
            => /\ loader'.files_loaded = <<>>
               /\ loader'.error = "ValueError"
                    => (loader.base_prefix = <<>> \/ TextKeys = <<>>) ]_vars
    /\ [](loader.pc = "raised" => loader.files_loaded = <<>> /\ loader.i = 0)
    /\ [][ (loader.pc = "called" /\ loader.base_prefix # <<>> /\ TextKeys = <<>>
              /\ loader' # loader)
            => (loader'.pc = "raised"
                /\ loader'.error \in {"ValueError", "ClientError", "EndpointConnectionError"}) ]_vars

\* load has returned rows for the first and the third of three listed
\* files, the second having failed
C17_Witness ==
    /\ loader.pc = "returned" /\ Len(loader.files) = 3
    /\ Len(loader.files_loaded) = 2 /\ Len(loader.warnings) = 1
    /\ loader.faults[1] = NoFault /\ loader.faults[3] = NoFault

(***************************************************************************)
(* Properties of get's key normalization                                   *)
(***************************************************************************)
\* the full key the claim has get fetch: a key that starts with
\* base_prefix + "/" is taken as prefix-qualified and fetched as it is, any
\* other key is fetched as base_prefix + "/" + key, and with an empty
\* base_prefix the key is fetched as it is
QualifiedGetKey(bp, key) ==
    IF bp # <<>> /\ StartsWith(key, bp \o Slash) THEN key ELSE FullKey(bp, key)

\* the content of the object at full_key as get returns it
ReadObject(b, full_key, as_bytes, encoding) ==
    IF full_key \notin DOMAIN b THEN Plain("None")
    ELSE IF as_bytes THEN Bytes(b[full_key])
    ELSE Decode(b[full_key], Codec(encoding))

\* C16: get strips a duplicated prefix only from a key that is already
\* prefix-qualified: get(p/k) reads the object p/k, the key of any other
\* call is resolved to p/key unchanged even when it contains p, and with an
\* empty base_prefix the key is never altered.
C16_StripsOnlyQualifiedKeys ==
    lastOp.op = "get" =>
        lastOp.ret = ReadObject(bucket, QualifiedGetKey(lastOp.inst, lastOp.key),
                                lastOp.as_bytes, lastOp.encoding)

(***************************************************************************)
(* Properties of find's base_dir                                           *)
(***************************************************************************)
\* the keys of the bucket that set(d + "/" + k, v) on instance bp writes for
\* some k: those under FullKey(bp, d) + "/", in listing order
PlacedUnder(b, bp, d) ==
    LET Test(k) == StartsWith(k, FullKey(bp, d \o Slash)) /\ k # FullKey(bp, d \o Slash)
    IN SelectSeq(Listing(b, <<>>), Test)

\* C20: find with a match-all pattern and base_dir = d yields the full key
\* of every object that set(d + "/" + k, v) on the same instance wrote, and
\* no key that set would not place under d, for every base_prefix.
C20_BaseDirAgreesWithSet ==
    (/\ Unfiltered /\ gen.state = "done"
     /\ gen.pattern = ".*" /\ gen.base_dir # NoneStr)
        => YieldedKeys(gen) = PlacedUnder(bucket, gen.bp, gen.base_dir)

(***************************************************************************)
(* Properties of interleaved find iterations                               *)
(***************************************************************************)
\* the generator of the call that made g, before its first pull
Fresh(g) == WithProgress(NewGen(g.bp, g.pattern, g.base_dir, g.filter, g.max_count))

\* the generator after n pulls with no other generator around
RECURSIVE Alone(_, _, _)
Alone(b, g, n) ==
    IF n = 0 \/ g.state \notin {"created", "suspended"} THEN g
    ELSE Alone(b, Resume(b, g), n - 1)

\* g stands where its call of find stands after some number of pulls when
\* run alone: same entries yielded, same reports made, same counters
AsAlone(g) ==
    \/ g.state = "none"
    \/ \E n \in 0..(Cardinality(FindKeys) + 1) : g = Alone(bucket, Fresh(g), n)

====
